---------------------------- MODULE Spec2Model ----------------------------
(***************************************************************************)
(* UROPA annotation engine (src/uropa/annotation.py).                      *)
(*                                                                         *)
(* Python dictionaries are functions with a string domain; d[k] = v on a   *)
(* dictionary is Put(d, k, v).  Overlap fractions (round(x, 3)) and the    *)
(* "internals" threshold are kept in thousandths, as integers.             *)
(***************************************************************************)
EXTENDS Integers, Sequences, FiniteSets, TLC

\* ------------------------------------------------------------------ bounds
\* Largest genomic coordinate of an enumerated peak or feature.
MaxCoord == 7
\* Longest query list of the engine runs.
MaxQueries == 2
\* Number of peaks of an engine run is 1..MaxPeaks.
MaxPeaks == 2

\* ----------------------------------------------------------- dictionaries
Put(d, k, v) == (k :> v) @@ d

Abs(x) == IF x < 0 THEN -x ELSE x

Max2(a, b) == IF a >= b THEN a ELSE b

Min2(a, b) == IF a <= b THEN a ELSE b

\* int(x / 2) for the sum of two coordinates: truncation toward zero.
IntHalf(x) == IF x >= 0 THEN x \div 2 ELSE -((-x) \div 2)

\* round(a / b, 3) in thousandths, round-half-to-even as Python 3 rounds.
Round3(a, b) ==
    LET q == (1000 * a) \div b
        r == (1000 * a) % b
    IN  IF 2 * r < b THEN q
        ELSE IF 2 * r > b THEN q + 1
        ELSE IF q % 2 = 0 THEN q ELSE q + 1

\* The attribute dictionary of a hit.  hit.attributes is kept as the list of
\* its ';'-separated pairs, each the list of its whitespace-separated tokens;
\* the dictionary maps pair[1] to pair[2], the last pair of a key winning; a
\* pair of fewer than two tokens raises, and the except branch yields {}.
parse_attributes(attributes) ==
    IF \E i \in 1..Len(attributes) : Len(attributes[i]) < 2
    THEN << >>
    ELSE LET keys == {attributes[i][1] : i \in 1..Len(attributes)}
             last(k) == CHOOSE i \in 1..Len(attributes) :
                           /\ attributes[i][1] = k
                           /\ \A j \in 1..Len(attributes) :
                                 attributes[j][1] = k => j <= i
         IN  [k \in keys |-> attributes[last(k)][2]]

\* Variant: the anchors are the physical start and end on either strand.
anchor_pos_unswapped(feat_strand, feat_start, feat_center, feat_end) ==
    [start |-> feat_start, center |-> feat_center, end |-> feat_end]

\* anchor_pos of create_anno_dict: start and end swap for a '-' feature.
anchor_pos(feat_strand, feat_start, feat_center, feat_end) ==
    [start  |-> IF feat_strand # "-" THEN feat_start ELSE feat_end,
     center |-> feat_center,
     end    |-> IF feat_strand # "-" THEN feat_end ELSE feat_start]

create_anno_dict(peak, hit) ==
    LET peak_center == IntHalf(peak.peak_end + peak.peak_start)
        feat_center == IntHalf(hit.end + hit.start)
    IN  [peak_center     |-> peak_center,
         peak_length     |-> peak.peak_end - peak.peak_start,
         feature         |-> hit.feature,
         feat_strand     |-> hit.strand,
         feat_start      |-> hit.start,
         feat_end        |-> hit.end,
         feat_center     |-> feat_center,
         feat_length     |-> hit.end - hit.start,
         feat_attributes |-> parse_attributes(hit.attributes),
         anchor_pos      |-> anchor_pos(hit.strand, hit.start, feat_center, hit.end),
         query           |-> 0,
         best_hit        |-> 0] @@ peak

\* list.index(min(list)): the first position holding the minimum.
IndexOfMin(s) ==
    CHOOSE i \in 1..Len(s) :
        /\ \A j \in 1..Len(s) : s[i] <= s[j]
        /\ \A j \in 1..(i - 1) : s[j] > s[i]

anchor_list_of(query_anchor) ==
    IF Len(query_anchor) = 0 THEN <<"start", "center", "end">> ELSE query_anchor

distance_to_peak_center(anno_dict, query_anchor) ==
    LET anchor_list   == anchor_list_of(query_anchor)
        raw_distances == [i \in 1..Len(anchor_list) |->
                             anno_dict.peak_center - anno_dict.anchor_pos[anchor_list[i]]]
        abs_distances == [i \in 1..Len(anchor_list) |-> Abs(raw_distances[i])]
        min_dist_i    == IndexOfMin(abs_distances)
    IN  Put(Put(Put(anno_dict,
            "raw_distance", raw_distances[min_dist_i]),
            "distance", Abs(raw_distances[min_dist_i])),
            "feat_anchor", anchor_list[min_dist_i])

calculate_overlap(anno_dict) ==
    LET lo       == Max2(anno_dict.peak_start + 1, anno_dict.feat_start + 1)
        hi       == Min2(anno_dict.peak_end, anno_dict.feat_end) + 1
        ovl_bp   == IF hi > lo THEN hi - lo ELSE 0
        ovl_pk   == Round3(ovl_bp, anno_dict.peak_length)
        ovl_feat == Round3(ovl_bp, anno_dict.feat_length)
    IN  Put(Put(anno_dict, "feat_ovl_peak", ovl_feat), "peak_ovl_feat", ovl_pk)

\* The Upstream/Downstream label of a start or end anchor without overlap.
stream_label(feat_strand, feat_anchor) ==
    IF feat_anchor = "start"
    THEN (IF feat_strand = "+" THEN "Upstream" ELSE "Downstream")
    ELSE (IF feat_strand = "+" THEN "Downstream" ELSE "Upstream")

get_relative_location(anno_dict) ==
    LET location ==
          IF /\ anno_dict.peak_start <= anno_dict.feat_start
             /\ anno_dict.peak_end >= anno_dict.feat_end
          THEN "FeatureInsidePeak"
          ELSE IF /\ anno_dict.peak_start > anno_dict.feat_start
                  /\ anno_dict.peak_end < anno_dict.feat_end
          THEN "PeakInsideFeature"
          ELSE IF anno_dict.feat_anchor = "start"
          THEN (IF anno_dict.feat_ovl_peak > 0 THEN "OverlapStart"
                ELSE stream_label(anno_dict.feat_strand, "start"))
          ELSE IF anno_dict.feat_anchor = "end"
          THEN (IF anno_dict.feat_ovl_peak > 0 THEN "OverlapEnd"
                ELSE stream_label(anno_dict.feat_strand, "end"))
          ELSE "NA"
    IN  Put(anno_dict, "relative_location", location)

\* ------------------------------------------------------------ the checks
\* A query is a dictionary; Has(query, k) is Python's  k in query.
Has(query, k) == k \in DOMAIN query

query_anchor_of(query) ==
    IF Has(query, "feature_anchor") THEN query.feature_anchor ELSE << >>

InSeq(x, s) == \E i \in 1..Len(s) : s[i] = x

\* Variant: the window bounds are inclusive.
distance_window_inclusive(feat_strand, raw_distance, distance) ==
    IF feat_strand = "+"
    THEN raw_distance >= -distance[1] /\ raw_distance <= distance[2]
    ELSE raw_distance >= -distance[2] /\ raw_distance <= distance[1]

\* The window test of the distance check.
distance_window(feat_strand, raw_distance, distance) ==
    IF feat_strand = "+"
    THEN raw_distance > -distance[1] /\ raw_distance < distance[2]
    ELSE raw_distance > -distance[2] /\ raw_distance < distance[1]

\* The internals relaxation of the distance check.
internals_relax(anno_dict, query) ==
    LET max_overlap == Max2(anno_dict.feat_ovl_peak, anno_dict.peak_ovl_feat)
    IN  query.internals > 0 /\ max_overlap >= query.internals

check_feature_anchor(anno_dict, query) ==
    IF Has(query, "feature_anchor")
    THEN "feature_anchor" :> InSeq(anno_dict.feat_anchor, query.feature_anchor)
    ELSE << >>

check_strand(anno_dict, query) ==
    IF Has(query, "strand") /\ query.strand # "ignore" /\ anno_dict.peak_strand # "."
    THEN "strand" :>
           (\/ (anno_dict.peak_strand = anno_dict.feat_strand /\ query.strand = "same")
            \/ (anno_dict.peak_strand # anno_dict.feat_strand /\ query.strand = "opposite"))
    ELSE << >>

check_distance(anno_dict, query) ==
    LET window == distance_window(anno_dict.feat_strand, anno_dict.raw_distance,
                                  query.distance)
    IN  "distance" :>
           (IF Has(query, "internals")
            THEN window \/ internals_relax(anno_dict, query)
            ELSE window)

check_relative_location(anno_dict, query) ==
    IF Has(query, "relative_location")
    THEN "relative_location" :> (anno_dict.relative_location \in query.relative_location)
    ELSE << >>

\* dict.get(key, None): "None" stands for Python's None.
attribute_get(feat_attributes, key) ==
    IF key \in DOMAIN feat_attributes THEN feat_attributes[key] ELSE "None"

check_attribute(anno_dict, query) ==
    IF Has(query, "filter_attribute") /\ Has(query, "attribute_values")
    THEN "attribute" :>
           (attribute_get(anno_dict.feat_attributes, query.filter_attribute)
               \in query.attribute_values)
    ELSE << >>

build_checks(anno_dict, query) ==
    check_feature_anchor(anno_dict, query) @@ check_strand(anno_dict, query)
      @@ check_distance(anno_dict, query) @@ check_relative_location(anno_dict, query)
      @@ check_attribute(anno_dict, query)

all_valid(checks) == \A k \in DOMAIN checks : checks[k]

\* The feature-type filter in front of the record construction.
feature_skipped(hit, query) ==
    Has(query, "feature") /\ hit.feature \notin query.feature

\* The geometry pipeline of one hit under query number query_i.
annotate_hit(peak, hit, query, query_i) ==
    LET a0 == Put(Put(create_anno_dict(peak, hit), "query", query_i),
                  "query_name", query.name)
        a1 == distance_to_peak_center(a0, query_anchor_of(query))
        a2 == calculate_overlap(a1)
    IN  get_relative_location(a2)

\* ------------------------------------------------------------ input sets
Intervals == {iv \in (0..MaxCoord) \X (0..MaxCoord) : iv[1] < iv[2]}

Strands == {"+", "-", "."}

MkPeak(chr, iv, strand, id) ==
    [peak_chr |-> chr, peak_start |-> iv[1], peak_end |-> iv[2],
     peak_id |-> id, peak_strand |-> strand]

MkHit(feature, iv, strand, attributes) ==
    [feature |-> feature, start |-> iv[1], end |-> iv[2], strand |-> strand,
     attributes |-> attributes]

\* Anchor preferences of a query, in the order the query lists them.
AnchorLists ==
    {<< >>, <<"start">>, <<"center">>, <<"end">>, <<"start", "end">>,
     <<"end", "start">>, <<"end", "center">>, <<"center", "end", "start">>}

VARIABLES
    anchor_run,             \* one call of distance_to_peak_center
    hit_run,                \* one pass of the per-hit body of annotate_peaks
    peaks,                  \* annotate_peaks: the peak dictionaries handed in
    queries,                \* cfg_dict["queries"]
    priority,               \* cfg_dict["priority"]
    tabix,                  \* the opened index: its contigs and their features
    pc,                     \* position in annotate_peaks
    peak_i,                 \* number of the peak the for loop is at
    query_i,
    stop_searching,
    valid_annotations,
    all_valid_annotations,
    peaks_in,               \* history: the peaks as they were handed in
    emitted,                \* history: per peak, the list line 270 appended
    fetch_log               \* history: <<peak, query index, outcome>> of each fetch

engine_vars == <<peaks, queries, priority, tabix, pc, peak_i, query_i, stop_searching,
                 valid_annotations, all_valid_annotations, peaks_in, emitted, fetch_log>>

vars == <<anchor_run, hit_run, engine_vars>>

EngineIdle ==
    /\ peaks = << >> /\ peaks_in = << >> /\ queries = << >> /\ priority = FALSE
    /\ tabix = [contigs |-> {}, features |-> << >>]
    /\ pc = "idle" /\ peak_i = 0 /\ query_i = -1 /\ stop_searching = FALSE
    /\ valid_annotations = << >> /\ all_valid_annotations = << >>
    /\ emitted = << >> /\ fetch_log = {}

\* ----------------------------------------------- anchor resolution, alone
NoRun == [stage |-> "idle"]

AnchorInit ==
    /\ anchor_run \in
         [stage : {"input"},
          peak : {MkPeak("chr1", iv, "+", "p1") : iv \in Intervals},
          hit : {MkHit("gene", iv, s, << >>) : iv \in Intervals, s \in Strands},
          query_anchor : AnchorLists,
          mirror_of : {NoRun}]
    /\ hit_run = NoRun
    /\ EngineIdle

\* distance_to_peak_center on the record create_anno_dict builds.
ResolveAnchor ==
    /\ anchor_run.stage = "input"
    /\ anchor_run' =
         Put(Put(anchor_run, "stage", "resolved"),
             "anno", distance_to_peak_center(
                        create_anno_dict(anchor_run.peak, anchor_run.hit),
                        anchor_run.query_anchor))
    /\ UNCHANGED <<hit_run, engine_vars>>

\* The caller hands in the mirror image about M of a resolved '+' input:
\* peak [M - peak_end, M - peak_start], feature [M - end, M - start] on '-'.
MirrorAnchorInput ==
    /\ anchor_run.stage = "resolved"
    /\ anchor_run.mirror_of = NoRun
    /\ anchor_run.hit.strand = "+"
    /\ \E M \in MaxCoord..(MaxCoord + 1) :
         anchor_run' =
           [stage |-> "input",
            peak |-> MkPeak("chr1",
                       <<M - anchor_run.peak.peak_end, M - anchor_run.peak.peak_start>>,
                       "+", "p1"),
            hit |-> MkHit("gene",
                       <<M - anchor_run.hit.end, M - anchor_run.hit.start>>, "-", << >>),
            query_anchor |-> anchor_run.query_anchor,
            mirror_of |-> [peak |-> anchor_run.peak, hit |-> anchor_run.hit,
                           anno |-> anchor_run.anno]]
    /\ UNCHANGED <<hit_run, engine_vars>>

AnchorNext == ResolveAnchor \/ MirrorAnchorInput

SpecAnchor == AnchorInit /\ [][AnchorNext]_vars

\* ------------------------------------------ the per-hit body, on one hit
Windows == {<<2, 1>>, <<0, 3>>}

NoKeys == << >>

AnchorOpts ==
    {NoKeys, [feature_anchor |-> << >>], [feature_anchor |-> <<"start">>],
     [feature_anchor |-> <<"end", "center">>]}

InternalsOpts == {NoKeys, [internals |-> 0], [internals |-> 500]}

\* The keys that do not bear on geometry, with a peak strand, a feature type
\* and an attribute string to go with them.
HitContexts ==
    {[peak_strand |-> ".", feature |-> "gene", attributes |-> << >>,
      keys |-> NoKeys],
     [peak_strand |-> "+", feature |-> "gene",
      attributes |-> << <<"gene_id", "g1">>, <<"gene_biotype", "protein_coding">> >>,
      keys |-> [feature |-> {"gene", "transcript"}, strand |-> "same",
                filter_attribute |-> "gene_biotype",
                attribute_values |-> {"protein_coding"}]],
     [peak_strand |-> "-", feature |-> "exon",
      attributes |-> << <<"gene_id">> >>,
      keys |-> [feature |-> {"gene"}, strand |-> "ignore"]],
     [peak_strand |-> "+", feature |-> "gene",
      attributes |-> << <<"gene_biotype", "lncRNA">>, <<"gene_biotype">> >>,
      keys |-> [strand |-> "opposite",
                relative_location |-> {"Upstream", "OverlapStart", "FeatureInsidePeak"},
                filter_attribute |-> "gene_biotype",
                attribute_values |-> {"None"}]]}

HitInit ==
    /\ \E pv \in Intervals, hv \in Intervals, hs \in Strands, w \in Windows,
          a \in AnchorOpts, n \in InternalsOpts, c \in HitContexts :
         hit_run = [stage |-> "input",
                    peak  |-> MkPeak("chr1", pv, c.peak_strand, "p1"),
                    hit   |-> MkHit(c.feature, hv, hs, c.attributes),
                    query |-> [name |-> "q0", distance |-> w] @@ a @@ n @@ c.keys]
    /\ anchor_run = NoRun
    /\ EngineIdle

\* Lines 186-189: the feature type is not one the query asks for.
SkipHit ==
    /\ hit_run.stage = "input"
    /\ feature_skipped(hit_run.hit, hit_run.query)
    /\ hit_run' = Put(hit_run, "stage", "skipped")
    /\ UNCHANGED <<anchor_run, engine_vars>>

\* Lines 191-198: the record and its geometry.
AnnotateHit ==
    /\ hit_run.stage = "input"
    /\ ~feature_skipped(hit_run.hit, hit_run.query)
    /\ hit_run' = Put(Put(hit_run, "stage", "annotated"),
                      "anno", annotate_hit(hit_run.peak, hit_run.hit, hit_run.query, 0))
    /\ UNCHANGED <<anchor_run, engine_vars>>

\* Lines 201-237: the checks and the verdict.
ValidateHit ==
    /\ hit_run.stage = "annotated"
    /\ LET checks == build_checks(hit_run.anno, hit_run.query)
       IN  hit_run' = Put(Put(Put(hit_run, "stage", "checked"),
                          "checks", checks), "valid", all_valid(checks))
    /\ UNCHANGED <<anchor_run, engine_vars>>

HitNext == SkipHit \/ AnnotateHit \/ ValidateHit

SpecHit == HitInit /\ [][HitNext]_vars

\* ------------------------------------------------- anchor resolution claims
Resolved == anchor_run.stage = "resolved"

MirrorResolved == Resolved /\ anchor_run.mirror_of # NoRun

Considered(query_anchor) ==
    IF Len(query_anchor) = 0 THEN {"start", "center", "end"}
    ELSE {query_anchor[i] : i \in 1..Len(query_anchor)}

AnchorRank(a) == CASE a = "start" -> 1 [] a = "center" -> 2 [] OTHER -> 3

AnchorDist(anno, a) == Abs(anno.peak_center - anno.anchor_pos[a])

SameAnchorAndDistance ==
    /\ anchor_run.anno.feat_anchor = anchor_run.mirror_of.anno.feat_anchor
    /\ anchor_run.anno.distance = anchor_run.mirror_of.anno.distance

\* C5 as stated: resolving the mirror image (about any M, '-' strand, centers
\* recomputed by floor) of a '+' input gives the same anchor label and the
\* same absolute distance as the original input.
C5_MirrorSymmetric == MirrorResolved => SameAnchorAndDistance

EvenSum(a, b) == (a + b) % 2 = 0

\* The centers of the original are exact midpoints, as far as they are used.
ExactCenters ==
    LET o == anchor_run.mirror_of
    IN  /\ EvenSum(o.peak.peak_start, o.peak.peak_end)
        /\ \/ EvenSum(o.hit.start, o.hit.end)
           \/ "center" \notin Considered(anchor_run.query_anchor)

\* C5 amended: the mirror image of a '+' input resolves to the same anchor
\* label and absolute distance whenever peak_start + peak_end is even and
\* either feat_start + feat_end is even or center is not a considered anchor.
C5_MirrorSymmetricExactCenters ==
    (MirrorResolved /\ ExactCenters) => SameAnchorAndDistance

\* A mirrored input with exact centers whose start and end anchors tie.
C5_Witness ==
    /\ MirrorResolved /\ ExactCenters
    /\ anchor_run.query_anchor = <<"end", "start">>
    /\ AnchorDist(anchor_run.anno, "start") = AnchorDist(anchor_run.anno, "end")
    /\ anchor_run.anno.distance > 0

\* C6 as stated: the chosen anchor is a considered one of minimum absolute
\* distance, the first in the order start, center, end among those tied at the
\* minimum whatever order the query lists them in, and distance is
\* abs(raw_distance) of the chosen anchor and >= 0.
C6_MinAnchorFixedOrder ==
    Resolved =>
      LET anno == anchor_run.anno
          cons == Considered(anchor_run.query_anchor)
      IN  /\ anno.feat_anchor \in cons
          /\ \A a \in cons : AnchorDist(anno, anno.feat_anchor) <= AnchorDist(anno, a)
          /\ \A a \in cons :
                AnchorDist(anno, a) = AnchorDist(anno, anno.feat_anchor)
                   => AnchorRank(anno.feat_anchor) <= AnchorRank(a)
          /\ anno.raw_distance = anno.peak_center - anno.anchor_pos[anno.feat_anchor]
          /\ anno.distance = Abs(anno.raw_distance)
          /\ anno.distance >= 0

\* ------------------------------------------------------- per-hit claims
Checked == hit_run.stage = "checked"

InWindowPlus(raw, w) == -w[1] < raw /\ raw < w[2]

InWindowMinus(raw, w) == -w[2] < raw /\ raw < w[1]

MaxOverlap(anno) ==
    IF anno.peak_ovl_feat >= anno.feat_ovl_peak THEN anno.peak_ovl_feat
    ELSE anno.feat_ovl_peak

ByInternals(anno, query) ==
    /\ "internals" \in DOMAIN query
    /\ query.internals > 0
    /\ MaxOverlap(anno) >= query.internals

Without(query, key) == [k \in (DOMAIN query) \ {key} |-> query[k]]

VerdictUnder(query) ==
    all_valid(build_checks(annotate_hit(hit_run.peak, hit_run.hit, query, 0), query))

\* C8: under a query whose anchor preference is present but empty, every
\* candidate gets the verdict it gets under the same query with the anchor
\* preference absent.
C8_EmptyAnchorsNoRestriction ==
    (/\ Checked
     /\ "feature_anchor" \in DOMAIN hit_run.query
     /\ hit_run.query.feature_anchor = << >>)
      => hit_run.valid = VerdictUnder(Without(hit_run.query, "feature_anchor"))

\* The record of a feature of unknown strand looks, at every strand-dependent
\* step, as the same record with strand s would.
TreatedAs(s) ==
    LET anno == hit_run.anno
        as_s == Put(anno, "feat_strand", s)
    IN  /\ anno.anchor_pos =
             anchor_pos(s, anno.feat_start, anno.feat_center, anno.feat_end)
        /\ hit_run.checks["distance"] = check_distance(as_s, hit_run.query)["distance"]
        /\ anno.relative_location = get_relative_location(as_s).relative_location

\* C10: a feature of strand '.' is handled as '+' by every strand-dependent
\* step of its record (anchor positions, window orientation, Upstream /
\* Downstream label), or as '-' by every one of them.
C10_UnknownStrandUniform ==
    (Checked /\ hit_run.anno.feat_strand = ".") => \E s \in {"+", "-"} : TreatedAs(s)

\* ------------------------------------------------------- annotate_peaks
\* tabix_obj.fetch(chr, start, end): the features of the contig that overlap
\* the half-open region, in file order.  A contig the index does not hold
\* raises; FetchRaises is that case.
FetchRaises(chr) == chr \notin tabix.contigs

Fetch(chr, start, end) ==
    SelectSeq(tabix.features, LAMBDA f : f.start < end /\ f.end > start)

\* Lines 165-167: the region fetched for a peak under a query.
extend_start(peak, query) ==
    Max2(1, peak.peak_start - Max2(query.distance[1], query.distance[2]))

extend_end(peak, query) ==
    peak.peak_end + Max2(query.distance[1], query.distance[2])

\* Lines 183-237: the copies appended to valid_annotations for the hits of
\* one query, in the order of the hits.
valid_hits(peak, hits, query, qi) ==
    LET candidates == SelectSeq(hits, LAMBDA h : ~feature_skipped(h, query))
        annos == [i \in 1..Len(candidates) |-> annotate_hit(peak, candidates[i], query, qi)]
    IN  SelectSeq(annos, LAMBDA a : all_valid(build_checks(a, query)))

\* Variant: the except branch empties hits and the search goes on.
continue_on_fetch_error == FALSE

\* Line 179: the except branch ends the search for the peak.
stop_on_fetch_error == TRUE

\* Variant: the priority flag is not consulted.
stop_after_query_no_priority(n_valid, prio, stopped) == stopped

\* Line 244.
stop_after_query(n_valid, prio, stopped) == (n_valid > 0 /\ prio) \/ stopped

\* Variant: every record at the minimum distance is flagged.
mark_best_all_minimal(annotations) ==
    [i \in 1..Len(annotations) |->
        IF \A j \in 1..Len(annotations) : annotations[i].distance <= annotations[j].distance
        THEN Put(annotations[i], "best_hit", 1) ELSE annotations[i]]

\* Variant: the last record at the minimum distance is flagged.
mark_best_last_minimal(annotations) ==
    LET last == CHOOSE i \in 1..Len(annotations) :
                   /\ \A j \in 1..Len(annotations) :
                         annotations[i].distance <= annotations[j].distance
                   /\ \A j \in (i + 1)..Len(annotations) :
                         annotations[j].distance > annotations[i].distance
    IN  [annotations EXCEPT ![last] = Put(@, "best_hit", 1)]

\* Lines 262-263.
mark_best(annotations) ==
    LET distances == [i \in 1..Len(annotations) |-> annotations[i].distance]
    IN  [annotations EXCEPT ![IndexOfMin(distances)] = Put(@, "best_hit", 1)]

EnginePeaks ==
    {MkPeak("chr1", <<2, 4>>, "+", "a"), MkPeak("chr1", <<4, 8>>, ".", "b"),
     MkPeak("chrUn", <<2, 4>>, "-", "c")}

EngineQueries ==
    {[name |-> "tss", distance |-> <<3, 3>>, feature |-> {"gene"},
      feature_anchor |-> <<"start">>],
     [name |-> "near", distance |-> <<1, 1>>, feature |-> {"exon"}],
     [name |-> "wide", distance |-> <<5, 5>>, internals |-> 500, strand |-> "same"]}

\* The features of contig chr1, sorted by start as a tabix index holds them.
EngineFeatures ==
    << MkHit("gene", <<1, 3>>, "+", << <<"gene_id", "g1">> >>),
       MkHit("exon", <<4, 6>>, "-", << <<"gene_id", "g2">> >>),
       MkHit("gene", <<5, 9>>, ".", << <<"gene_id", "g3">> >>),
       MkHit("gene", <<8, 9>>, "+", << <<"gene_id", "g4">> >>) >>

SeqsUpTo(S, n) == UNION {[1..k -> S] : k \in 1..n}

Init ==
    /\ peaks \in SeqsUpTo(EnginePeaks, MaxPeaks)
    /\ peaks_in = peaks
    /\ queries \in SeqsUpTo(EngineQueries, MaxQueries)
    /\ priority \in BOOLEAN
    /\ tabix = [contigs |-> {"chr1"}, features |-> EngineFeatures]
    /\ pc = "next_peak" /\ peak_i = 0 /\ query_i = -1 /\ stop_searching = FALSE
    /\ valid_annotations = << >> /\ all_valid_annotations = << >>
    /\ emitted = << >> /\ fetch_log = {}
    /\ anchor_run = NoRun /\ hit_run = NoRun

\* queries[query_i] of the source: query_i counts from 0.
QueryAt(i) == queries[i + 1]

Searching == pc = "loop" /\ query_i + 1 < Len(queries) /\ stop_searching = FALSE

\* Lines 150-156: the for loop takes the next peak.
StartPeak ==
    /\ pc = "next_peak" /\ peak_i < Len(peaks)
    /\ peak_i' = peak_i + 1
    /\ valid_annotations' = << >>
    /\ stop_searching' = FALSE
    /\ query_i' = -1
    /\ pc' = "loop"
    /\ UNCHANGED <<peaks, queries, priority, tabix, all_valid_annotations, peaks_in,
                   emitted, fetch_log, anchor_run, hit_run>>

\* Lines 157-249, the fetch returning: one pass of the while loop.
QueryFetched ==
    /\ Searching
    /\ ~FetchRaises(peaks[peak_i].peak_chr)
    /\ LET qi    == query_i + 1
           query == QueryAt(qi)
           peak  == peaks[peak_i]
           hits  == Fetch(peak.peak_chr, extend_start(peak, query), extend_end(peak, query))
           found == valid_annotations \o valid_hits(peak, hits, query, qi)
       IN  /\ query_i' = qi
           /\ valid_annotations' = found
           /\ stop_searching' = stop_after_query(Len(found), priority, stop_searching)
           /\ fetch_log' = fetch_log \cup {<<peak_i, qi, "fetched">>}
    /\ UNCHANGED <<peaks, queries, priority, tabix, pc, peak_i, all_valid_annotations,
                   peaks_in, emitted, anchor_run, hit_run>>

\* Lines 157-249, the fetch raising (lines 176-180): an unknown contig, or
\* any other failure of the index, which the bare except catches alike.
QueryFetchFailed ==
    /\ Searching
    /\ LET qi    == query_i + 1
           hits  == << >>
           found == valid_annotations \o valid_hits(peaks[peak_i], hits, QueryAt(qi), qi)
       IN  /\ query_i' = qi
           /\ valid_annotations' = found
           /\ stop_searching' = stop_after_query(Len(found), priority, stop_on_fetch_error)
           /\ fetch_log' = fetch_log \cup {<<peak_i, qi, "failed">>}
    /\ UNCHANGED <<peaks, queries, priority, tabix, pc, peak_i, all_valid_annotations,
                   peaks_in, emitted, anchor_run, hit_run>>

\* Lines 251-270: the best flag, or the peak itself as the empty hit.  The
\* list [peak] holds the caller's dictionary, so the flag is set on it.
FinishPeak ==
    /\ pc = "loop" /\ ~Searching
    /\ IF Len(valid_annotations) > 0
       THEN /\ valid_annotations' = mark_best(valid_annotations)
            /\ peaks' = peaks
       ELSE /\ peaks' = [peaks EXCEPT ![peak_i] = Put(@, "best_hit", 1)]
            /\ valid_annotations' = <<peaks'[peak_i]>>
    /\ all_valid_annotations' = all_valid_annotations \o valid_annotations'
    /\ emitted' = Append(emitted, valid_annotations')
    /\ pc' = "next_peak"
    /\ UNCHANGED <<queries, priority, tabix, peak_i, query_i, stop_searching, peaks_in,
                   fetch_log, anchor_run, hit_run>>

\* Lines 272-274.
Return ==
    /\ pc = "next_peak" /\ peak_i = Len(peaks)
    /\ pc' = "done"
    /\ UNCHANGED <<peaks, queries, priority, tabix, peak_i, query_i, stop_searching,
                   valid_annotations, all_valid_annotations, peaks_in, emitted,
                   fetch_log, anchor_run, hit_run>>

Next == StartPeak \/ QueryFetched \/ QueryFetchFailed \/ FinishPeak \/ Return

Spec == Init /\ [][Next]_vars

\* ---------------------------------------------------------- engine claims
Finished == 1..Len(emitted)

IsAnnotation(r) == "query" \in DOMAIN r

Annotated(recs) == \A i \in 1..Len(recs) : IsAnnotation(recs[i])

\* The lowest query index among annotation records: the index at which the
\* accumulator became non-empty.
FirstFound(recs) ==
    CHOOSE k \in 0..Len(queries) :
        /\ \E i \in 1..Len(recs) : recs[i].query = k
        /\ \A i \in 1..Len(recs) : recs[i].query >= k

FetchedFor(p) == {e[2] : e \in {x \in fetch_log : x[1] = p}}

StoppedAtFirstFound(p, recs) ==
    (Len(recs) > 0 /\ Annotated(recs)) =>
        /\ \A q \in FetchedFor(p) : q <= FirstFound(recs)
        /\ \A i \in 1..Len(recs) : recs[i].query <= FirstFound(recs)

\* C1: with priority true, once a peak's accumulator is non-empty after query
\* k, no query of index > k is fetched for that peak, and none of its records
\* carries a query index above the first k that found something.
C1_PriorityStops ==
    priority =>
        /\ pc = "loop" => StoppedAtFirstFound(peak_i, valid_annotations)
        /\ \A p \in Finished : StoppedAtFirstFound(p, emitted[p])

\* A finished run where a peak was satisfied by query 0 and query 1 was
\* never fetched for it, and another peak was only satisfied by query 1.
C1_Witness ==
    /\ pc = "done" /\ priority /\ Len(queries) = 2
    /\ \E p \in Finished :
          /\ Annotated(emitted[p]) /\ FirstFound(emitted[p]) = 0
          /\ FetchedFor(p) = {0}
    /\ \E p \in Finished :
          /\ Annotated(emitted[p]) /\ FirstFound(emitted[p]) = 1

BestCount(recs) == Cardinality({i \in 1..Len(recs) : recs[i].best_hit = 1})

Concat(ss) ==
    LET cat[i \in 0..Len(ss)] == IF i = 0 THEN << >> ELSE cat[i - 1] \o ss[i]
    IN  cat[Len(ss)]

\* C2: the returned records hold, for every input peak, at least one record
\* and exactly one with best_hit = 1, every other with best_hit = 0; a peak
\* without valid annotation has the single peak-only record with best_hit = 1.
C2_OneBestPerPeak ==
    /\ \A p \in Finished :
          LET recs == emitted[p]
          IN  /\ Len(recs) >= 1
              /\ \A i \in 1..Len(recs) :
                    "best_hit" \in DOMAIN recs[i] /\ recs[i].best_hit \in {0, 1}
              /\ BestCount(recs) = 1
              /\ \/ /\ Annotated(recs)
                    /\ \A i \in 1..Len(recs) : recs[i].peak_id = peaks_in[p].peak_id
                 \/ recs = <<Put(peaks_in[p], "best_hit", 1)>>
    /\ all_valid_annotations = Concat(emitted)
    /\ pc = "done" => Len(emitted) = Len(peaks_in)

TiedAtMin(recs) ==
    \E i, j \in 1..Len(recs) :
        /\ i < j /\ recs[i].distance = recs[j].distance
        /\ \A k \in 1..Len(recs) : recs[k].distance >= recs[i].distance

\* A finished run with an unannotated peak and a peak whose records tie at
\* the minimum distance.
C2_Witness ==
    /\ pc = "done"
    /\ \E p \in Finished : ~Annotated(emitted[p])
    /\ \E p \in Finished : Annotated(emitted[p]) /\ TiedAtMin(emitted[p])

FeaturePos(r) ==
    CHOOSE i \in 1..Len(tabix.features) :
        /\ tabix.features[i].start = r.feat_start
        /\ tabix.features[i].end = r.feat_end
        /\ tabix.features[i].strand = r.feat_strand
        /\ tabix.features[i].feature = r.feature

\* Accumulation order: by query index, then by the index's return order.
InAccumulationOrder(recs) ==
    \A i, j \in 1..Len(recs) :
        i < j => \/ recs[i].query < recs[j].query
                 \/ /\ recs[i].query = recs[j].query
                    /\ FeaturePos(recs[i]) < FeaturePos(recs[j])

\* C3: of a peak's valid records, the one flagged best has the minimum
\* distance over the records of all query indices together, and is the
\* earliest in accumulation order among those at the minimum.
C3_BestIsFirstMinimum ==
    \A p \in Finished :
        Annotated(emitted[p]) =>
          LET recs == emitted[p]
          IN  /\ InAccumulationOrder(recs)
              /\ \A b \in 1..Len(recs) :
                    recs[b].best_hit = 1 =>
                      /\ \A i \in 1..Len(recs) : recs[b].distance <= recs[i].distance
                      /\ \A i \in 1..(b - 1) : recs[i].distance > recs[b].distance

\* Without priority: records of two query indices, tied at the minimum.
C3_Witness ==
    /\ ~priority
    /\ \E p \in Finished :
          /\ Annotated(emitted[p]) /\ TiedAtMin(emitted[p])
          /\ \E i, j \in 1..Len(emitted[p]) : emitted[p][i].query # emitted[p][j].query

NoFailure == 0 - 1

\* The query index at which the fetch for peak p failed.
FailedAt(p) ==
    IF \E e \in fetch_log : e[1] = p /\ e[3] = "failed"
    THEN (CHOOSE e \in fetch_log : e[1] = p /\ e[3] = "failed")[2]
    ELSE NoFailure

\* What one peak alone yields when its fetch fails at query fail_at.
RECURSIVE Accumulate(_, _, _, _)
Accumulate(peak, qi, acc, fail_at) ==
    IF qi >= Len(queries) \/ qi = fail_at THEN acc
    ELSE LET query == QueryAt(qi)
             hits  == Fetch(peak.peak_chr, extend_start(peak, query), extend_end(peak, query))
             found == acc \o valid_hits(peak, hits, query, qi)
         IN  IF priority /\ Len(found) > 0 THEN found
             ELSE Accumulate(peak, qi + 1, found, fail_at)

RecordsAlone(peak, fail_at) ==
    LET acc == Accumulate(peak, 0, << >>, fail_at)
    IN  IF Len(acc) = 0 THEN <<Put(peak, "best_hit", 1)>> ELSE mark_best(acc)

\* The run has returned, or stands where a step of it is enabled: between
\* peaks, or in the query loop of a peak (which the failed fetch has left
\* with stop_searching set, so that the peak is finished next).
RunGoesOn ==
    \/ pc = "done"
    \/ pc = "next_peak" /\ peak_i <= Len(peaks) /\ Len(emitted) = peak_i
    \/ pc = "loop" /\ peak_i \in 1..Len(peaks) /\ Len(emitted) = peak_i - 1

\* C4: a fetch failing for a peak at query k ends that peak's search (no
\* query above k is attempted, no query >= k contributes a record), keeps
\* what queries below k accumulated, does not abort the run, and leaves
\* every peak's records what that peak alone yields.
C4_FetchFailureIsPerPeak ==
    /\ \A p \in 1..peak_i :
          FailedAt(p) # NoFailure =>
              /\ \A q \in FetchedFor(p) : q <= FailedAt(p)
              /\ p \in Finished =>
                    \A i \in 1..Len(emitted[p]) :
                        IsAnnotation(emitted[p][i]) => emitted[p][i].query < FailedAt(p)
              /\ (pc = "loop" /\ p = peak_i) =>
                    /\ stop_searching
                    /\ valid_annotations = Accumulate(peaks_in[p], 0, << >>, FailedAt(p))
    /\ \A p \in Finished : emitted[p] = RecordsAlone(peaks_in[p], FailedAt(p))
    /\ RunGoesOn
    /\ pc = "done" => Len(emitted) = Len(peaks)

\* A finished run whose first peak failed at query 1 after query 0 found
\* records, and whose second peak was annotated.
C4_Witness ==
    /\ pc = "done" /\ Len(emitted) = 2
    /\ FailedAt(1) = 1 /\ Annotated(emitted[1])
    /\ FailedAt(2) = NoFailure /\ Annotated(emitted[2])

\* C9: after the run every input peak has exactly the fields and values it
\* was handed in with.
C9_InputsUntouched == pc = "done" => peaks = peaks_in

=============================================================================
